---- MODULE Spec2Model ----
(***************************************************************************)
(* A model of QueueService (packages/ocular/src/services/queue.ts): the    *)
(* Kafka producer channel (send, sendBatch), the two consumer entry points *)
(* (subscribe, subscribeBatch), the eachBatch callback that subscribeBatch *)
(* installs, the consumer registry and the process "exit" listener.        *)
(*                                                                         *)
(* JavaScript runs one callback at a time, so one action is one run of     *)
(* synchronous code: from a call, or from the settlement of an awaited     *)
(* promise, to the next await or return.                                   *)
(***************************************************************************)
EXTENDS Naturals, Sequences, FiniteSets

\* ------------------------------------------------------------------ bounds
MaxBatchLen == 3      \* longest batch the broker delivers
MaxBatches == 2       \* batches delivered to the batch consumer
MaxCalls == 2         \* subscribe / subscribeBatch calls
MaxSends == 2         \* send / sendBatch calls
MaxData == 2          \* longest data array of a sendBatch call
MaxShutdowns == 2     \* times the "exit" listener is triggered
MaxMessages == 3      \* messages delivered to the single-message consumer

\* --------------------------------------------------------------- constants
Docs == {"d1", "d2"}
Topics == {"docs"}
Unserializable == "cyclic"          \* a value JSON.stringify throws on
Garbage == <<"raw", "garbage">>     \* a payload JSON.parse throws on
ParseError == "SyntaxError"

\* A document holding a Date (IndexableDocument.updatedAt), and what JSON makes of
\* it: JSON.stringify writes the Date as an ISO string and JSON.parse leaves the
\* string a string.
DatedDoc == "dDate"
DatedDocJson == "dDateIso"
JsonForm(doc) == IF doc = DatedDoc THEN DatedDocJson ELSE doc

\* JSON.stringify(doc): the wire value of a document.
Stringify(doc) == <<"json", JsonForm(doc)>>
\* Buffer values a broker can deliver: serialized documents, or anything else.
Payloads == {Stringify(d) : d \in Docs} \cup {Garbage}
\* JSON.parse(message.value.toString()): the document, or a thrown error.
Parse(value) == IF value[1] = "json" THEN value[2] ELSE ParseError

Calls == 1 .. MaxCalls
Senders == 1 .. MaxSends

VARIABLES
  \* --- eachBatch callback of the batch consumer
  bRunning,     \* run({eachBatch}) was called: the broker may deliver batches
  bPc,          \* "idle" | "handler" | "heartbeat" | "returned" | "threw"
  bMessages,    \* batch.messages of the batch being processed (payloads)
  bDocs,        \* docs, the parsed messages
  bI,           \* the loop index i (1-based here)
  bInflight,    \* indices whose handler invocation has not settled
  bTrace,       \* what the callback did for this batch, in order
  bResolved,    \* batches whose offsets were resolved (callback returned)
  bDelivered,   \* batch callbacks made so far
  offset,       \* messages of the topic the batch consumer has fetched
  \* --- eachMessage callback of the single-message consumer
  mRunning,     \* run({eachMessage}) was called: the broker may deliver messages
  mMsgs,        \* the payloads delivered so far, one callback each
  mCb,          \* per callback: "returned" | "pending" | "threw"
  mInflight,    \* callbacks whose handler invocation has not settled
  mTrace,       \* what the callbacks and the handlers did, in order
  \* --- subscribe / subscribeBatch calls and their kafka consumers
  sKind, sFn, sPc, sLogged, sBroker,
  hConn, hSub, hRun, unhandled,
  registry,
  \* --- the "exit" listener
  procAlive, hookPc, hookRuns, drainLeft, disconnectsDone, kAtShutdown, infoLogged,
  \* --- producer
  producerOk, prodConn, pKind, pData, pPc, pLogged, pOps, pFailed, topicLog

bRest == <<bPc, bMessages, bDocs, bI, bInflight, bTrace, bResolved, bDelivered>>
bVars == <<bRunning, bRest>>
sVars == <<sKind, sFn, sPc, sLogged, sBroker, hConn, hSub, hRun, unhandled, registry>>
xVars == <<procAlive, hookPc, hookRuns, drainLeft, disconnectsDone, kAtShutdown, infoLogged>>
pVars == <<producerOk, prodConn, pKind, pData, pPc, pLogged, pOps, pFailed, topicLog>>
mRest == <<mMsgs, mCb, mInflight, mTrace>>
mVars == <<mRunning, mRest>>
vars == <<bVars, offset, mVars, sVars, xVars, pVars>>

\* ------------------------------------------------------------------ helpers
RECURSIVE SeqsUpTo(_, _)
SeqsUpTo(S, n) ==
  IF n = 0 THEN {<<>>}
  ELSE LET shorter == SeqsUpTo(S, n - 1)
       IN shorter \cup {Append(s, x) : s \in {t \in shorter : Len(t) = n - 1}, x \in S}

Count(seq, P(_)) == Cardinality({k \in 1 .. Len(seq) : P(seq[k])})
Positions(seq, P(_)) == {k \in 1 .. Len(seq) : P(seq[k])}

\* ------------------------------------------------ eachBatch (subscribeBatch)
\* Trace events of one batch callback:
\*   <<"call", i, doc>>  consumer([docs[i]], topic) invoked
\*   <<"done", i>> / <<"fail", i>>   that invocation resolved / rejected
\*   <<"progress", i>>   logger_.progress
\*   <<"hbSend", i>>, <<"hbDone", i>> / <<"hbFail", i>>   heartbeat() called, settled
\*   <<"success">>       logger_.success
\*   <<"error">>         logger_.error of the catch block
IsCall(e) == e[1] = "call"
IsDone(e) == e[1] = "done"
IsFail(e) == e[1] = "fail"
IsProgress(e) == e[1] = "progress"
IsHbSend(e) == e[1] = "hbSend"
IsHbDone(e) == e[1] = "hbDone"
IsHbFail(e) == e[1] = "hbFail"
IsSuccess(e) == e[1] = "success"
IsError(e) == e[1] = "error"
IsThrow(e) == e[1] = "throw"
IsLog(e) == e[1] = "log"

\* The callback returns normally; with eachBatchAutoResolve the batch's offsets
\* are then resolved, so the broker does not deliver the batch again.
BatchReturn == bPc' = "returned" /\ bResolved' = bResolved + 1

\* The callback rejects: the offsets are not resolved and the batch comes again.
BatchThrow == bPc' = "threw" /\ bResolved' = bResolved

\* Mutation of Catch: the catch block logs and rethrows, so the callback rejects.
Catch_Rethrow(trace, inflight) ==
  /\ BatchThrow
  /\ bTrace' = Append(trace, <<"error">>)
  /\ bInflight' = inflight
  /\ bI' = bI

\* The catch block of eachBatch: log the error, fall off the end of the callback.
Catch(trace, inflight) ==
  /\ BatchReturn
  /\ bTrace' = Append(trace, <<"error">>)
  /\ bInflight' = inflight
  /\ bI' = bI

\* Mutation of LoopHead: the handler call is not awaited, the loop goes straight
\* on to the progress report and the heartbeat.
LoopHead_NoAwait(i, docs, trace, inflight) ==
  IF i <= Len(docs)
  THEN /\ bPc' = "heartbeat"
       /\ bI' = i
       /\ bInflight' = inflight \cup {i}
       /\ bTrace' = trace \o <<<<"call", i, docs[i]>>, <<"progress", i>>, <<"hbSend", i>>>>
       /\ bResolved' = bResolved
  ELSE /\ BatchReturn
       /\ bI' = i
       /\ bInflight' = inflight
       /\ bTrace' = Append(trace, <<"success">>)

\* Mutation of LoopHead: the loop stops one message early.
LoopHead_OffByOne(i, docs, trace, inflight) ==
  IF i < Len(docs)
  THEN /\ bPc' = "handler"
       /\ bI' = i
       /\ bInflight' = inflight \cup {i}
       /\ bTrace' = Append(trace, <<"call", i, docs[i]>>)
       /\ bResolved' = bResolved
  ELSE /\ BatchReturn
       /\ bI' = i
       /\ bInflight' = inflight
       /\ bTrace' = Append(trace, <<"success">>)

\* The head of the for loop with index i: either the next handler call, awaited,
\* or the end of the loop, the success marker and the return.
LoopHead(i, docs, trace, inflight) ==
  IF i <= Len(docs)
  THEN /\ bPc' = "handler"
       /\ bI' = i
       /\ bInflight' = inflight \cup {i}
       /\ bTrace' = Append(trace, <<"call", i, docs[i]>>)
       /\ bResolved' = bResolved
  ELSE /\ BatchReturn
       /\ bI' = i
       /\ bInflight' = inflight
       /\ bTrace' = Append(trace, <<"success">>)

\* Mutation of AfterHandler: no heartbeat, the loop advances after the progress
\* report.
AfterHandler_SkipHeartbeat(i, trace, inflight) ==
  LoopHead(i + 1, bDocs, Append(trace, <<"progress", i>>), inflight)

\* After the awaited handler call of index i resolved: the progress report, then
\* heartbeat() is called and awaited.
AfterHandler(i, trace, inflight) ==
  /\ bPc' = "heartbeat"
  /\ bI' = i
  /\ bInflight' = inflight
  /\ bTrace' = trace \o <<<<"progress", i>>, <<"hbSend", i>>>>
  /\ bResolved' = bResolved

\* Mutation of eachBatch: a payload that does not parse is dropped and the loop
\* runs over the others.
eachBatch_SkipBad(messages) ==
  /\ procAlive
  /\ bRunning
  /\ bPc \in {"idle", "returned", "threw"}
  /\ bDelivered < MaxBatches
  /\ bPc = "threw" => messages = bMessages
  /\ bDelivered' = bDelivered + 1
  /\ bMessages' = messages
  /\ LET Parses(value) == Parse(value) # ParseError
         good == SelectSeq(messages, Parses)
         docs == [k \in 1 .. Len(good) |-> Parse(good[k])]
     IN /\ bDocs' = docs
        /\ LoopHead(1, docs, <<>>, bInflight)
  /\ UNCHANGED bRunning

\* The broker client calls eachBatch({batch, heartbeat}): the activity starts, every
\* message is parsed (a throw goes to the catch block), and the loop begins. A
\* batch whose callback rejected is the one delivered again.
eachBatch(messages) ==
  /\ procAlive
  /\ bRunning
  /\ bPc \in {"idle", "returned", "threw"}
  /\ bDelivered < MaxBatches
  /\ bPc = "threw" => messages = bMessages
  /\ bDelivered' = bDelivered + 1
  /\ bMessages' = messages
  /\ LET docs == [k \in 1 .. Len(messages) |-> Parse(messages[k])]
     IN IF \E k \in 1 .. Len(messages) : docs[k] = ParseError
        THEN /\ bDocs' = <<>>
             /\ Catch(<<>>, bInflight)
        ELSE /\ bDocs' = docs
             /\ LoopHead(1, docs, <<>>, bInflight)
  /\ UNCHANGED bRunning

\* The promise of the handler invocation of index i settles. When the loop awaits
\* it, the loop goes on (or to the catch block); a promise nobody awaits has no
\* continuation.
HandlerSettle(i, ok) ==
  /\ procAlive
  /\ i \in bInflight
  /\ IF bPc = "handler" /\ bI = i
     THEN IF ok
          THEN AfterHandler(i, Append(bTrace, <<"done", i>>), bInflight \ {i})
          ELSE Catch(Append(bTrace, <<"fail", i>>), bInflight \ {i})
     ELSE /\ bInflight' = bInflight \ {i}
          /\ bTrace' = Append(bTrace, <<IF ok THEN "done" ELSE "fail", i>>)
          /\ UNCHANGED <<bPc, bI, bResolved>>
  /\ UNCHANGED <<bRunning, bMessages, bDocs, bDelivered>>

\* Mutation of HeartbeatSettle: a rejected heartbeat does not stop the loop.
HeartbeatSettle_IgnoreFailure(ok) ==
  /\ procAlive
  /\ bPc = "heartbeat"
  /\ LoopHead(bI + 1, bDocs, Append(bTrace, <<IF ok THEN "hbDone" ELSE "hbFail", bI>>), bInflight)
  /\ UNCHANGED <<bRunning, bMessages, bDocs, bDelivered>>

\* The awaited heartbeat() settles.
HeartbeatSettle(ok) ==
  /\ procAlive
  /\ bPc = "heartbeat"
  /\ IF ok
     THEN LoopHead(bI + 1, bDocs, Append(bTrace, <<"hbDone", bI>>), bInflight)
     ELSE Catch(Append(bTrace, <<"hbFail", bI>>), bInflight)
  /\ UNCHANGED <<bRunning, bMessages, bDocs, bDelivered>>


\* --------------------------------------------------- eachMessage (subscribe)
\* Trace events of the single-message consumer, m the number of the callback:
\*   <<"parseThrow", m>>  JSON.parse threw in the callback
\*   <<"call", m, doc>>   consumer([doc], topic) invoked
\*   <<"throw", m>>       that call threw before it returned a promise
\*   <<"done", m>> / <<"fail", m>>   the promise it returned resolved / rejected
\*   <<"log", m>>         logger_.error of the .catch handler

\* Mutation of Dispatch: the callback awaits the handler before it returns.
Dispatch_Await(m, doc) ==
  /\ mTrace' = Append(mTrace, <<"call", m, doc>>)
  /\ mInflight' = mInflight \cup {m}
  /\ mCb' = Append(mCb, "pending")

\* consumer([doc], topic).catch(...): the handler is invoked, the .catch handler
\* is attached to the promise it returns, and the callback returns at once.
Dispatch(m, doc) ==
  /\ mTrace' = Append(mTrace, <<"call", m, doc>>)
  /\ mInflight' = mInflight \cup {m}
  /\ mCb' = Append(mCb, "returned")

\* The broker client calls eachMessage({topic, partition, message}), one callback
\* at a time. JSON.parse and the handler call are not inside a try block: a throw
\* of either rejects the callback, and the message is delivered again. `throws`
\* says whether the handler throws before it returns its promise.
eachMessage(value, throws) ==
  /\ procAlive
  /\ mRunning
  /\ Len(mMsgs) < MaxMessages
  /\ \A k \in 1 .. Len(mCb) : mCb[k] # "pending"
  /\ (mCb # <<>> /\ mCb[Len(mCb)] = "threw") => value = mMsgs[Len(mMsgs)]
  /\ mMsgs' = Append(mMsgs, value)
  /\ LET m == Len(mMsgs) + 1
         doc == Parse(value)
     IN IF doc = ParseError
        THEN /\ mTrace' = Append(mTrace, <<"parseThrow", m>>)
             /\ mCb' = Append(mCb, "threw")
             /\ UNCHANGED mInflight
        ELSE IF throws
             THEN /\ mTrace' = mTrace \o <<<<"call", m, doc>>, <<"throw", m>>>>
                  /\ mCb' = Append(mCb, "threw")
                  /\ UNCHANGED mInflight
             ELSE Dispatch(m, doc)
  /\ UNCHANGED mRunning

\* The promise the handler returned for callback m settles: a rejection runs the
\* .catch handler, which logs it. A callback that awaits the promise returns now.
messageHandlerSettle(m, ok) ==
  /\ procAlive
  /\ m \in mInflight
  /\ mInflight' = mInflight \ {m}
  /\ mTrace' = IF ok THEN Append(mTrace, <<"done", m>>)
               ELSE mTrace \o <<<<"fail", m>>, <<"log", m>>>>
  /\ mCb' = [mCb EXCEPT ![m] = IF @ = "pending" THEN "returned" ELSE @]
  /\ UNCHANGED <<mRunning, mMsgs>>

\* ------------------------------------------------------- consumer registry
\* storeConsumers of AbstractQueueService: the entry is appended to the table.
storeConsumers(entry) == registry' = Append(registry, entry)

\* The handles the registry holds.
Registered == {registry[k].consumer : k \in 1 .. Len(registry)}

\* The entry subscribe and subscribeBatch build: the ulid makes consumerId unique,
\* as the number of the call does here. The handle of call c is handle c.
Entry(topicName, c) ==
  [topicName |-> topicName, consumerId |-> <<topicName, c>>, consumer |-> c]

\* --------------------------------------------------------------- subscribe
\* Mutation of subscribe: the typeof test is missing.
subscribe_NoCheck(c, topicName, isFn) ==
  /\ procAlive
  /\ sPc[c] = "idle"
  /\ sKind' = [sKind EXCEPT ![c] = "subscribe"]
  /\ sFn' = [sFn EXCEPT ![c] = isFn]
  /\ sPc' = [sPc EXCEPT ![c] = "created"]
  /\ hConn' = [hConn EXCEPT ![c] = "created"]
  /\ sBroker' = [sBroker EXCEPT ![c] = <<"consumer">>]
  /\ UNCHANGED <<sLogged, hSub, hRun, unhandled, registry, bRunning, mRunning>>

\* subscribe(topicName, consumer, context) up to its first await: the typeof test
\* throws out of the async function (the call rejects); otherwise the kafka
\* consumer is created.
subscribe(c, topicName, isFn) ==
  /\ procAlive
  /\ sPc[c] = "idle"
  /\ sKind' = [sKind EXCEPT ![c] = "subscribe"]
  /\ sFn' = [sFn EXCEPT ![c] = isFn]
  /\ IF ~isFn
     THEN /\ sPc' = [sPc EXCEPT ![c] = "rejected"]
          /\ UNCHANGED <<hConn, sBroker>>
     ELSE /\ sPc' = [sPc EXCEPT ![c] = "created"]
          /\ hConn' = [hConn EXCEPT ![c] = "created"]
          /\ sBroker' = [sBroker EXCEPT ![c] = <<"consumer">>]
  /\ UNCHANGED <<sLogged, hSub, hRun, unhandled, registry, bRunning, mRunning>>

\* await kafkaConsumer.connect(): the call is made and awaited.
subscribeConnect(c) ==
  /\ procAlive
  /\ sPc[c] = "created"
  /\ sPc' = [sPc EXCEPT ![c] = "connect"]
  /\ hConn' = [hConn EXCEPT ![c] = "connecting"]
  /\ sBroker' = [sBroker EXCEPT ![c] = Append(@, "connect")]
  /\ UNCHANGED <<sKind, sFn, sLogged, hSub, hRun, unhandled, registry, bRunning, mRunning>>

\* connect() settles: a rejection leaves the async function (no try block);
\* otherwise kafkaConsumer.subscribe() is called and awaited.
subscribeConnectSettle(c, ok) ==
  /\ procAlive
  /\ sPc[c] = "connect"
  /\ IF ok
     THEN /\ hConn' = [hConn EXCEPT ![c] = "connected"]
          /\ hSub' = [hSub EXCEPT ![c] = "pending"]
          /\ sBroker' = [sBroker EXCEPT ![c] = Append(@, "subscribe")]
          /\ sPc' = [sPc EXCEPT ![c] = "subscribe"]
     ELSE /\ hConn' = [hConn EXCEPT ![c] = "failed"]
          /\ sPc' = [sPc EXCEPT ![c] = "rejected"]
          /\ UNCHANGED <<hSub, sBroker>>
  /\ UNCHANGED <<sKind, sFn, sLogged, hRun, unhandled, registry, bRunning, mRunning>>

\* subscribe() settles: a rejection leaves the async function; otherwise run() is
\* called (not awaited), the entry is stored and the call resolves.
subscribeSubscribeSettle(c, topicName, ok) ==
  /\ procAlive
  /\ sPc[c] = "subscribe"
  /\ IF ok
     THEN /\ hSub' = [hSub EXCEPT ![c] = "yes"]
          /\ hRun' = [hRun EXCEPT ![c] = TRUE]
          /\ sBroker' = [sBroker EXCEPT ![c] = Append(@, "run")]
          /\ storeConsumers(Entry(topicName, c))
          /\ sPc' = [sPc EXCEPT ![c] = "resolved"]
          /\ mRunning' = TRUE
     ELSE /\ hSub' = [hSub EXCEPT ![c] = "failed"]
          /\ sPc' = [sPc EXCEPT ![c] = "rejected"]
          /\ UNCHANGED <<hRun, sBroker, registry, mRunning>>
  /\ UNCHANGED <<sKind, sFn, sLogged, hConn, unhandled, bRunning>>

\* ---------------------------------------------------------- subscribeBatch
\* subscribeBatch(topicName, consumer, context) holds no await: the whole body is
\* one run. The typeof test throws inside the try block, so the catch block logs
\* it and the call resolves. Otherwise connect(), subscribe() and run() are called
\* without awaiting them and the entry is stored at once.
subscribeBatch(c, topicName, isFn) ==
  /\ procAlive
  /\ sPc[c] = "idle"
  /\ sKind' = [sKind EXCEPT ![c] = "subscribeBatch"]
  /\ sFn' = [sFn EXCEPT ![c] = isFn]
  /\ sPc' = [sPc EXCEPT ![c] = "resolved"]
  /\ IF ~isFn
     THEN /\ sLogged' = [sLogged EXCEPT ![c] = @ + 1]
          /\ UNCHANGED <<hConn, hSub, hRun, sBroker, registry, bRunning, mRunning>>
     ELSE /\ hConn' = [hConn EXCEPT ![c] = "connecting"]
          /\ hSub' = [hSub EXCEPT ![c] = "pending"]
          /\ hRun' = [hRun EXCEPT ![c] = TRUE]
          /\ sBroker' = [sBroker EXCEPT ![c] = <<"consumer", "connect", "subscribe", "run">>]
          /\ storeConsumers(Entry(topicName, c))
          /\ bRunning' = TRUE
          /\ UNCHANGED sLogged
  /\ UNCHANGED <<unhandled, mRunning>>

\* The connect() promise subscribeBatch dropped settles; nothing handles a rejection.
batchConnectSettle(c, ok) ==
  /\ procAlive
  /\ sKind[c] = "subscribeBatch"
  /\ hConn[c] = "connecting"
  /\ hConn' = [hConn EXCEPT ![c] = IF ok THEN "connected" ELSE "failed"]
  /\ unhandled' = IF ok THEN unhandled ELSE unhandled + 1
  /\ UNCHANGED <<sKind, sFn, sPc, sLogged, sBroker, hSub, hRun, registry, bRunning, mRunning>>

\* The subscribe() promise subscribeBatch dropped settles.
batchSubscribeSettle(c, ok) ==
  /\ procAlive
  /\ sKind[c] = "subscribeBatch"
  /\ hSub[c] = "pending"
  /\ hSub' = [hSub EXCEPT ![c] = IF ok THEN "yes" ELSE "failed"]
  /\ unhandled' = IF ok THEN unhandled ELSE unhandled + 1
  /\ UNCHANGED <<sKind, sFn, sPc, sLogged, sBroker, hConn, hRun, registry, bRunning, mRunning>>

\* ------------------------------------------------------ the "exit" listener
\* process.on("exit", async () => {...}) up to its await: the info line, then
\* clearConsumers() of AbstractQueueService runs to its first await. It disconnects
\* the handles of the table one after the other and then empties the table.
exitListener ==
  /\ procAlive
  /\ hookPc \in {"idle", "done"}
  /\ hookRuns < MaxShutdowns
  /\ hookRuns' = hookRuns + 1
  /\ infoLogged' = infoLogged + 1
  /\ kAtShutdown' = IF hookRuns = 0 THEN Len(registry) ELSE kAtShutdown
  /\ IF registry = <<>>
     THEN /\ hookPc' = "done"
          /\ drainLeft' = <<>>
          /\ UNCHANGED hConn
     ELSE /\ hookPc' = "draining"
          /\ drainLeft' = [k \in 1 .. Len(registry) |-> registry[k].consumer]
          /\ hConn' = [hConn EXCEPT ![registry[1].consumer] = "disconnecting"]
  /\ UNCHANGED <<procAlive, disconnectsDone, registry>>
  /\ UNCHANGED <<sKind, sFn, sPc, sLogged, sBroker, hSub, hRun, unhandled, bRunning, mRunning>>

\* clearConsumers() after a disconnect() it awaited has completed: the next handle
\* is disconnected, or the table is emptied.
clearConsumers ==
  /\ procAlive
  /\ hookPc = "draining"
  /\ disconnectsDone' = disconnectsDone + 1
  /\ IF Len(drainLeft) > 1
     THEN /\ hConn' = [hConn EXCEPT ![drainLeft[1]] = "disconnected",
                                    ![drainLeft[2]] = "disconnecting"]
          /\ drainLeft' = Tail(drainLeft)
          /\ UNCHANGED <<hookPc, registry>>
     ELSE /\ hConn' = [hConn EXCEPT ![drainLeft[1]] = "disconnected"]
          /\ drainLeft' = <<>>
          /\ registry' = <<>>
          /\ hookPc' = "done"
  /\ UNCHANGED <<procAlive, hookRuns, kAtShutdown, infoLogged>>
  /\ UNCHANGED <<sKind, sFn, sPc, sLogged, sBroker, hSub, hRun, unhandled, bRunning, mRunning>>

\* Node ends the process once the "exit" listeners have returned, that is at the
\* listener's first await: what the listener still awaits never runs. (The event
\* can also be emitted with the process staying alive, so this is one outcome.)
processExit ==
  /\ procAlive
  /\ hookRuns >= 1
  /\ hookPc \in {"draining", "done"}
  /\ procAlive' = FALSE
  /\ UNCHANGED <<hookPc, hookRuns, drainLeft, disconnectsDone, kAtShutdown, infoLogged>>
  /\ UNCHANGED sVars
  /\ UNCHANGED <<bRunning, mRunning>>

\* ---------------------------------------------------------------- producer
StringifyThrows(data) == \E k \in 1 .. Len(data) : data[k] = Unserializable

\* Mutation of ProducerCatch: the error is logged and rethrown.
ProducerCatch_Rethrow(s, what) ==
  /\ pPc' = [pPc EXCEPT ![s] = "rejected"]
  /\ pLogged' = [pLogged EXCEPT ![s] = @ + 1]
  /\ pFailed' = [pFailed EXCEPT ![s] = what]

\* The catch block of send and of sendBatch: the error is logged, the call resolves.
ProducerCatch(s, what) ==
  /\ pPc' = [pPc EXCEPT ![s] = "returned"]
  /\ pLogged' = [pLogged EXCEPT ![s] = @ + 1]
  /\ pFailed' = [pFailed EXCEPT ![s] = what]

\* send / sendBatch up to the first await: producer_.connect() is called inside
\* the try block (a producer the constructor failed to create throws there).
ProducerCall(s, kind, topicName, data) ==
  /\ procAlive
  /\ pPc[s] = "idle"
  /\ pKind' = [pKind EXCEPT ![s] = kind]
  /\ pData' = [pData EXCEPT ![s] = [topic |-> topicName, data |-> data]]
  /\ IF producerOk
     THEN /\ pPc' = [pPc EXCEPT ![s] = "connecting"]
          /\ pOps' = [pOps EXCEPT ![s] = <<"connect">>]
          /\ UNCHANGED <<pLogged, pFailed>>
     ELSE /\ ProducerCatch(s, "producer")
          /\ UNCHANGED pOps
  /\ UNCHANGED <<producerOk, prodConn, topicLog>>

\* send(topicName, data): one message, published with producer_.send.
send(s, topicName, data) == ProducerCall(s, "send", topicName, <<data>>)

\* sendBatch(topicName, data): one message per element, published with
\* producer_.sendBatch.
sendBatch(s, topicName, data) == ProducerCall(s, "sendBatch", topicName, data)

\* connect() settles. On success the messages are serialized (a throw goes to the
\* catch block) and the publish is called and awaited.
producerConnectSettle(s, ok) ==
  /\ procAlive
  /\ pPc[s] = "connecting"
  /\ IF ~ok
     THEN /\ ProducerCatch(s, "connect")
          /\ UNCHANGED <<prodConn, pOps>>
     ELSE /\ prodConn' = TRUE
          /\ IF StringifyThrows(pData[s].data)
             THEN /\ ProducerCatch(s, "serialize")
                  /\ UNCHANGED pOps
             ELSE /\ pPc' = [pPc EXCEPT ![s] = "publishing"]
                  /\ pOps' = [pOps EXCEPT ![s] = Append(@, pKind[s])]
                  /\ UNCHANGED <<pLogged, pFailed>>
  /\ UNCHANGED <<producerOk, pKind, pData, topicLog>>

\* Mutation of Messages: the messages are built in reverse order.
Messages_Reversed(data) ==
  [k \in 1 .. Len(data) |-> [value |-> Stringify(data[Len(data) + 1 - k])]]

\* Mutation of Messages: the whole array is sent as one message.
Messages_WholeArray(data) == <<[value |-> <<"json", "array">>]>>

\* messages: [{value: JSON.stringify(data)}] of send, data.map((doc) => ({value:
\* JSON.stringify(doc)})) of sendBatch: one message per element, in order.
Messages(data) == [k \in 1 .. Len(data) |-> [value |-> Stringify(data[k])]]

\* The publish settles: on success the broker holds the messages, in order, and
\* disconnect() is called and awaited.
producerPublishSettle(s, ok) ==
  /\ procAlive
  /\ pPc[s] = "publishing"
  /\ IF ~ok
     THEN /\ ProducerCatch(s, "publish")
          /\ UNCHANGED <<pOps, topicLog>>
     ELSE /\ topicLog' = topicLog \o
               [k \in 1 .. Len(Messages(pData[s].data)) |->
                  [topic |-> pData[s].topic, value |-> Messages(pData[s].data)[k].value]]
          /\ pPc' = [pPc EXCEPT ![s] = "disconnecting"]
          /\ pOps' = [pOps EXCEPT ![s] = Append(@, "disconnect")]
          /\ UNCHANGED <<pLogged, pFailed>>
  /\ UNCHANGED <<producerOk, prodConn, pKind, pData>>

\* disconnect() settles: the call resolves, or the catch block logs the failure.
producerDisconnectSettle(s, ok) ==
  /\ procAlive
  /\ pPc[s] = "disconnecting"
  /\ IF ~ok
     THEN /\ ProducerCatch(s, "disconnect")
          /\ UNCHANGED prodConn
     ELSE /\ prodConn' = FALSE
          /\ pPc' = [pPc EXCEPT ![s] = "returned"]
          /\ UNCHANGED <<pLogged, pFailed>>
  /\ UNCHANGED <<producerOk, pKind, pData, pOps, topicLog>>

\* ------------------------------------------------------------ specifications
\* The state after the constructor of QueueService, the producer created.
InitBatchLoop ==
  /\ bPc = "idle"
  /\ bMessages = <<>>
  /\ bDocs = <<>>
  /\ bI = 1
  /\ bInflight = {}
  /\ bTrace = <<>>
  /\ bResolved = 0
  /\ bDelivered = 0
  /\ offset = 0

InitMessageLoop ==
  /\ mMsgs = <<>>
  /\ mCb = <<>>
  /\ mInflight = {}
  /\ mTrace = <<>>

InitSubscriptions ==
  /\ bRunning = FALSE
  /\ mRunning = FALSE
  /\ sKind = [c \in Calls |-> "none"]
  /\ sFn = [c \in Calls |-> TRUE]
  /\ sPc = [c \in Calls |-> "idle"]
  /\ sLogged = [c \in Calls |-> 0]
  /\ sBroker = [c \in Calls |-> <<>>]
  /\ hConn = [c \in Calls |-> "none"]
  /\ hSub = [c \in Calls |-> "no"]
  /\ hRun = [c \in Calls |-> FALSE]
  /\ unhandled = 0
  /\ registry = <<>>

InitExit ==
  /\ procAlive = TRUE
  /\ hookPc = "idle"
  /\ hookRuns = 0
  /\ drainLeft = <<>>
  /\ disconnectsDone = 0
  /\ kAtShutdown = 0
  /\ infoLogged = 0

InitProducer ==
  /\ prodConn = FALSE
  /\ pKind = [s \in Senders |-> "none"]
  /\ pData = [s \in Senders |-> [topic |-> "docs", data |-> <<>>]]
  /\ pPc = [s \in Senders |-> "idle"]
  /\ pLogged = [s \in Senders |-> 0]
  /\ pOps = [s \in Senders |-> <<>>]
  /\ pFailed = [s \in Senders |-> "none"]
  /\ topicLog = <<>>

Constructed == InitBatchLoop /\ InitMessageLoop /\ InitSubscriptions /\ InitExit /\ InitProducer

\* The constructor: kafkaClient.producer() may throw, which is logged and leaves
\* producer_ unset.
Init == Constructed /\ producerOk \in BOOLEAN

\* Values handed to send and sendBatch: a document, or a value JSON.stringify
\* throws on.
SendData == {"d1", Unserializable}
SendBatchData == SeqsUpTo(SendData, MaxData)

SubscribeNext ==
  \/ \E c \in Calls, t \in Topics, isFn \in BOOLEAN :
       subscribe(c, t, isFn) /\ UNCHANGED <<xVars, bRest, offset, mRest, pVars>>
  \/ \E c \in Calls : subscribeConnect(c) /\ UNCHANGED <<xVars, bRest, offset, mRest, pVars>>
  \/ \E c \in Calls, ok \in BOOLEAN :
       subscribeConnectSettle(c, ok) /\ UNCHANGED <<xVars, bRest, offset, mRest, pVars>>
  \/ \E c \in Calls, t \in Topics, ok \in BOOLEAN :
       subscribeSubscribeSettle(c, t, ok) /\ UNCHANGED <<xVars, bRest, offset, mRest, pVars>>
  \/ \E c \in Calls, t \in Topics, isFn \in BOOLEAN :
       subscribeBatch(c, t, isFn) /\ UNCHANGED <<xVars, bRest, offset, mRest, pVars>>
  \/ \E c \in Calls, ok \in BOOLEAN :
       batchConnectSettle(c, ok) /\ UNCHANGED <<xVars, bRest, offset, mRest, pVars>>
  \/ \E c \in Calls, ok \in BOOLEAN :
       batchSubscribeSettle(c, ok) /\ UNCHANGED <<xVars, bRest, offset, mRest, pVars>>

ExitNext ==
  \/ exitListener /\ UNCHANGED <<bRest, offset, mRest, pVars>>
  \/ clearConsumers /\ UNCHANGED <<bRest, offset, mRest, pVars>>
  \/ processExit /\ UNCHANGED <<bRest, offset, mRest, pVars>>

ProducerNext ==
  \/ \E s \in Senders, t \in Topics, data \in SendData :
       send(s, t, data) /\ UNCHANGED <<bVars, offset, mVars, sVars, xVars>>
  \/ \E s \in Senders, t \in Topics, data \in SendBatchData :
       sendBatch(s, t, data) /\ UNCHANGED <<bVars, offset, mVars, sVars, xVars>>
  \/ \E s \in Senders, ok \in BOOLEAN :
       producerConnectSettle(s, ok) /\ UNCHANGED <<bVars, offset, mVars, sVars, xVars>>
  \/ \E s \in Senders, ok \in BOOLEAN :
       producerPublishSettle(s, ok) /\ UNCHANGED <<bVars, offset, mVars, sVars, xVars>>
  \/ \E s \in Senders, ok \in BOOLEAN :
       producerDisconnectSettle(s, ok) /\ UNCHANGED <<bVars, offset, mVars, sVars, xVars>>

BatchNext ==
  \/ \E messages \in SeqsUpTo(Payloads, MaxBatchLen) :
       eachBatch(messages) /\ UNCHANGED <<offset, mVars, sVars, xVars, pVars>>
  \/ \E i \in 1 .. MaxBatchLen, ok \in BOOLEAN :
       HandlerSettle(i, ok) /\ UNCHANGED <<offset, mVars, sVars, xVars, pVars>>
  \/ \E ok \in BOOLEAN : HeartbeatSettle(ok) /\ UNCHANGED <<offset, mVars, sVars, xVars, pVars>>

MessageNext ==
  \/ \E value \in Payloads, throws \in BOOLEAN :
       eachMessage(value, throws) /\ UNCHANGED <<bVars, offset, sVars, xVars, pVars>>
  \/ \E m \in 1 .. MaxMessages, ok \in BOOLEAN :
       messageHandlerSettle(m, ok) /\ UNCHANGED <<bVars, offset, sVars, xVars, pVars>>

Next == SubscribeNext \/ ExitNext \/ ProducerNext \/ BatchNext \/ MessageNext

\* The whole service.
Spec == Init /\ [][Next]_vars

\* subscribe, subscribeBatch and the "exit" listener.
InitSub == Constructed /\ producerOk = TRUE

SubNext == SubscribeNext \/ ExitNext

SpecSub == InitSub /\ [][SubNext]_vars

\* send and sendBatch.
SpecSend == Init /\ [][ProducerNext]_vars

\* The state after subscribeBatch("docs", handler, context) of call 1 and after the
\* connect() and subscribe() it started have completed.
BatchConsumerRunning ==
  /\ bRunning = TRUE
  /\ mRunning = FALSE
  /\ sKind = [c \in Calls |-> IF c = 1 THEN "subscribeBatch" ELSE "none"]
  /\ sPc = [c \in Calls |-> IF c = 1 THEN "resolved" ELSE "idle"]
  /\ sBroker = [c \in Calls |->
                  IF c = 1 THEN <<"consumer", "connect", "subscribe", "run">> ELSE <<>>]
  /\ hConn = [c \in Calls |-> IF c = 1 THEN "connected" ELSE "none"]
  /\ hSub = [c \in Calls |-> IF c = 1 THEN "yes" ELSE "no"]
  /\ hRun = [c \in Calls |-> c = 1]
  /\ registry = <<Entry("docs", 1)>>
  /\ sFn = [c \in Calls |-> TRUE]
  /\ sLogged = [c \in Calls |-> 0]
  /\ unhandled = 0

\* The eachBatch callback of a running batch consumer.
InitBatch ==
  InitBatchLoop /\ InitMessageLoop /\ BatchConsumerRunning /\ InitExit /\ InitProducer /\ producerOk = TRUE

SpecBatch == InitBatch /\ [][BatchNext]_vars

\* The state after subscribe("docs", handler, context) of call 1 has resolved.
SingleConsumerRunning ==
  /\ bRunning = FALSE
  /\ mRunning = TRUE
  /\ sKind = [c \in Calls |-> IF c = 1 THEN "subscribe" ELSE "none"]
  /\ sPc = [c \in Calls |-> IF c = 1 THEN "resolved" ELSE "idle"]
  /\ sBroker = [c \in Calls |->
                  IF c = 1 THEN <<"consumer", "connect", "subscribe", "run">> ELSE <<>>]
  /\ hConn = [c \in Calls |-> IF c = 1 THEN "connected" ELSE "none"]
  /\ hSub = [c \in Calls |-> IF c = 1 THEN "yes" ELSE "no"]
  /\ hRun = [c \in Calls |-> c = 1]
  /\ registry = <<Entry("docs", 1)>>
  /\ sFn = [c \in Calls |-> TRUE]
  /\ sLogged = [c \in Calls |-> 0]
  /\ unhandled = 0

InitSingle ==
  InitBatchLoop /\ InitMessageLoop /\ SingleConsumerRunning /\ InitExit /\ InitProducer
    /\ producerOk = TRUE

\* The eachMessage callback of a running single-message consumer.
SpecSingle == InitSingle /\ [][MessageNext]_vars

\* ------------------------------------------------- sendBatch to the consumer
\* The topic the running batch consumer subscribed to, and the payloads the broker
\* holds for it.
ConsumerTopic == registry[1].topicName
IsConsumerTopic(rec) == rec.topic = ConsumerTopic
TopicValues ==
  LET recs == SelectSeq(topicLog, IsConsumerTopic)
  IN [k \in 1 .. Len(recs) |-> recs[k].value]

\* The broker hands the batch consumer what its topic holds beyond the fetched
\* offset, as one batch, in log order.
brokerDeliver ==
  /\ registry # <<>>
  /\ offset < Len(TopicValues)
  /\ eachBatch(SubSeq(TopicValues, offset + 1, Len(TopicValues)))
  /\ offset' = Len(TopicValues)

RoundTripTopics == {"docs", "other"}
RoundTripDocs == Docs \cup {DatedDoc}
RoundTripData == SeqsUpTo(RoundTripDocs, MaxData)

\* One sendBatch call, and the batch consumer of topic "docs".
RoundTripNext ==
  \/ \E t \in RoundTripTopics, data \in RoundTripData :
       sendBatch(1, t, data) /\ UNCHANGED <<bVars, offset, mVars, sVars, xVars>>
  \/ \E s \in Senders, ok \in BOOLEAN :
       producerConnectSettle(s, ok) /\ UNCHANGED <<bVars, offset, mVars, sVars, xVars>>
  \/ \E s \in Senders, ok \in BOOLEAN :
       producerPublishSettle(s, ok) /\ UNCHANGED <<bVars, offset, mVars, sVars, xVars>>
  \/ \E s \in Senders, ok \in BOOLEAN :
       producerDisconnectSettle(s, ok) /\ UNCHANGED <<bVars, offset, mVars, sVars, xVars>>
  \/ brokerDeliver /\ UNCHANGED <<mVars, sVars, xVars, pVars>>
  \/ \E i \in 1 .. MaxData, ok \in BOOLEAN :
       HandlerSettle(i, ok) /\ UNCHANGED <<offset, mVars, sVars, xVars, pVars>>
  \/ \E ok \in BOOLEAN : HeartbeatSettle(ok) /\ UNCHANGED <<offset, mVars, sVars, xVars, pVars>>

\* sendBatch into the topic of a running batch consumer.
SpecRoundTrip == InitBatch /\ [][RoundTripNext]_vars

\* ------------------------------------------------------------------ claims
\* The events of the trace between positions p and q, both excluded.
Between(p, q) == {k \in 1 .. Len(bTrace) : p < k /\ k < q}

\* Every payload of the batch parses.
AllParse == \A k \in 1 .. Len(bMessages) : Parse(bMessages[k]) # ParseError

\* C1: in the batch loop the handler is invoked on message i+1 only after its
\* invocation on message i has completed, in delivery order, and at most one
\* handler invocation is in flight at any moment.
C1_BatchSequential ==
  /\ Cardinality(bInflight) <= 1
  /\ \A p \in Positions(bTrace, IsCall) :
       LET i == bTrace[p][2]
       IN /\ i = Cardinality({q \in Positions(bTrace, IsCall) : q <= p})
          /\ bTrace[p][3] = Parse(bMessages[i])
          /\ i > 1 => \E q \in 1 .. p - 1 : IsDone(bTrace[q]) /\ bTrace[q][2] = i - 1

\* The handler of the second message of a batch is in flight.
C1_Witness ==
  /\ bPc = "handler"
  /\ bI = 2
  /\ bInflight = {2}

\* C2: if the handler fails on message i of a batch with more messages, it is never
\* invoked for the later messages, the error is logged, and the callback still
\* returns normally: the batch is resolved and not delivered again.
C2_HandlerFailureSkipsRest ==
  \A p \in Positions(bTrace, IsFail) :
    /\ \A q \in Positions(bTrace, IsCall) : bTrace[q][2] <= bTrace[p][2]
    /\ Count(bTrace, IsError) = 1
    /\ bPc = "returned"
    /\ bResolved = bDelivered

\* The handler failed on the first message of a longer batch.
C2_Witness ==
  /\ Len(bMessages) >= 2
  /\ \E p \in Positions(bTrace, IsFail) : bTrace[p][2] = 1
  /\ bPc = "returned"

\* C3: between two consecutive handler invocations of one batch there is exactly
\* one heartbeat, sent after the first invocation resolved and completed before
\* the second is made.
C3_HeartbeatBetweenHandlers ==
  \A p, q \in Positions(bTrace, IsCall) :
    (p < q /\ bTrace[q][2] = bTrace[p][2] + 1) =>
      /\ Cardinality({k \in Between(p, q) : IsHbSend(bTrace[k])}) = 1
      /\ Cardinality({k \in Between(p, q) : IsHbDone(bTrace[k])}) = 1
      /\ \E a, b, c \in Between(p, q) :
           /\ a < b /\ b < c
           /\ IsDone(bTrace[a]) /\ bTrace[a][2] = bTrace[p][2]
           /\ IsHbSend(bTrace[b])
           /\ IsHbDone(bTrace[c])

\* Two handler invocations of one batch have been made.
C3_Witness ==
  \E p, q \in Positions(bTrace, IsCall) : p < q /\ bTrace[q][2] = bTrace[p][2] + 1

\* What a batch of n messages does when nothing fails.
CleanBatchCounts ==
  LET n == Len(bMessages)
  IN /\ Count(bTrace, IsCall) = n
     /\ Count(bTrace, IsProgress) = n
     /\ Count(bTrace, IsHbSend) = n
     /\ Count(bTrace, IsHbDone) = n
     /\ Count(bTrace, IsSuccess) = 1
     /\ Count(bTrace, IsError) = 0

\* The callback of a batch has returned and no handler and no heartbeat failed.
NoHandlerOrHeartbeatFailure ==
  /\ bPc = "returned"
  /\ Count(bTrace, IsFail) = 0
  /\ Count(bTrace, IsHbFail) = 0

\* C4 as stated: a batch of n >= 0 messages processed with no handler or heartbeat
\* failure has exactly n handler invocations, n progress reports, n heartbeats and
\* one success marker, and no error.
C4_AsStated == NoHandlerOrHeartbeatFailure => CleanBatchCounts

\* C4, amended: the same, for a batch every payload of which also deserializes.
C4_CleanBatchCounts == (NoHandlerOrHeartbeatFailure /\ AllParse) => CleanBatchCounts

\* A batch of at least two messages was processed without any failure.
C4_Witness ==
  /\ NoHandlerOrHeartbeatFailure
  /\ AllParse
  /\ Len(bMessages) >= 2

\* The calls that stored an entry: run() and storeConsumers are made together.
EverRegistered == {c \in Calls : Len(sBroker[c]) > 0 /\ sBroker[c][Len(sBroker[c])] = "run"}

\* C5: subscribe with a handler that is not a function rejects at once, before
\* any broker call (consumer creation, connect, subscribe, run), and adds no
\* entry to the registry.
C5_SubscribeRejectsNonFunction ==
  \A c \in Calls :
    (sKind[c] = "subscribe" /\ ~sFn[c]) =>
      /\ sPc[c] = "rejected"
      /\ sBroker[c] = <<>>
      /\ hConn[c] = "none"
      /\ c \notin Registered
      /\ c \notin EverRegistered

\* A subscribe call with a non-function handler was rejected while the registry
\* holds the entry of another call.
C5_Witness ==
  \E c \in Calls :
    /\ sKind[c] = "subscribe"
    /\ ~sFn[c]
    /\ sPc[c] = "rejected"
    /\ Len(registry) = 1

\* C6: subscribeBatch with a handler that is not a function rejects like subscribe
\* does, makes no broker call and creates no registry entry.
C6_AsStated ==
  \A c \in Calls :
    (sKind[c] = "subscribeBatch" /\ ~sFn[c]) =>
      /\ sPc[c] = "rejected"
      /\ sBroker[c] = <<>>
      /\ c \notin Registered

\* C7: send and sendBatch never reject: every failure (serialization, connect,
\* publish, disconnect, a missing producer) is logged once by the catch block and
\* the call resolves, and the publish is never made twice.
C7_SendNeverFails ==
  \A s \in Senders :
    /\ pPc[s] # "rejected"
    /\ pPc[s] = "returned" => (pFailed[s] = "none" <=> pLogged[s] = 0)
    /\ pLogged[s] <= 1
    /\ Cardinality({k \in 1 .. Len(pOps[s]) : pOps[s][k] \in {"send", "sendBatch"}}) <= 1

\* One call has returned after a serialization failure and another after a
\* rejected publish.
C7_Witness ==
  \E s, t \in Senders :
    /\ pPc[s] = "returned" /\ pFailed[s] = "serialize"
    /\ pPc[t] = "returned" /\ pFailed[t] = "publish"

\* C8: when connect() or subscribe() of the kafka consumer fails during subscribe
\* or subscribeBatch, the failure is logged, the call resolves and no handle is
\* added to the registry.
C8_AsStated ==
  \A c \in Calls :
    (hConn[c] = "failed" \/ hSub[c] = "failed") =>
      /\ sPc[c] = "resolved"
      /\ sLogged[c] >= 1
      /\ c \notin EverRegistered

\* C9: when an entry is added to the registry, connect() and subscribe() of its
\* handle have completed successfully.
C9_AsStated ==
  [][\A c \in Calls :
       (c \notin Registered /\ c \in Registered') =>
         (hConn'[c] = "connected" /\ hSub'[c] = "yes")]_vars

\* C10: with k consumers registered, the shutdown run by the "exit" listener ends
\* with exactly k disconnects completed and an empty registry, and a second
\* shutdown adds no disconnect. (No call registers after the first shutdown began.)
C10_AsStated ==
  (/\ hookRuns >= 1
   /\ hookPc = "done" \/ ~procAlive
   /\ Cardinality(EverRegistered) = kAtShutdown) =>
    /\ disconnectsDone = kAtShutdown
    /\ registry = <<>>

\* The handler invocation of callback m failed: its promise rejected, or the call
\* itself threw.
HandlerFailed(m) ==
  \E k \in 1 .. Len(mTrace) : (IsFail(mTrace[k]) \/ IsThrow(mTrace[k])) /\ mTrace[k][2] = m

\* C11: the per-message callback does not wait for the handler: while a handler
\* invocation is in flight its callback has already returned, so later messages
\* are dispatched and may complete first.
C11_CallbackDoesNotWait ==
  \A m \in mInflight : mCb[m] = "returned"

\* The handler of the second message has completed while the handler of the first
\* message is still in flight.
C11_Witness ==
  /\ 1 \in mInflight
  /\ \E k \in 1 .. Len(mTrace) : IsDone(mTrace[k]) /\ mTrace[k][2] = 2

\* C12: a handler that rejects or throws for one message is logged and the failure
\* never leaves the per-message callback as a thrown or rejected value.
C12_AsStated ==
  \A m \in 1 .. Len(mMsgs) :
    HandlerFailed(m) =>
      /\ mCb[m] = "returned"
      /\ \E k \in 1 .. Len(mTrace) : IsLog(mTrace[k]) /\ mTrace[k][2] = m

\* The documents the handler was invoked with for the current batch, in order.
CallDocs ==
  LET calls == Positions(bTrace, IsCall)
      nth(k) == CHOOSE p \in calls : Cardinality({q \in calls : q <= p}) = k
  IN [k \in 1 .. Cardinality(calls) |-> bTrace[nth(k)][3]]

\* What the handler is to receive for the data of sendBatch call 1: the JSON form
\* of each document, in order, when the call went to the consumer's topic.
Expected ==
  IF pData[1].topic = ConsumerTopic
  THEN [k \in 1 .. Len(pData[1].data) |-> JsonForm(pData[1].data[k])]
  ELSE <<>>

\* sendBatch call 1 has returned without a failure, the broker has delivered what
\* it holds, and the batch callback is not running and met no failure.
RoundTripDone ==
  /\ pKind[1] = "sendBatch"
  /\ pPc[1] = "returned"
  /\ pFailed[1] = "none"
  /\ offset = Len(TopicValues)
  /\ bPc \in {"idle", "returned"}
  /\ Count(bTrace, IsFail) = 0
  /\ Count(bTrace, IsHbFail) = 0

\* C13: the documents published by sendBatch reach the handler of a batch consumer
\* of that topic exactly once each and in the original order (as their JSON form),
\* when nothing fails; at every moment the handler has seen a prefix of them.
C13_RoundTrip ==
  /\ Len(CallDocs) <= Len(Expected)
  /\ CallDocs = SubSeq(Expected, 1, Len(CallDocs))
  /\ RoundTripDone => CallDocs = Expected

\* Two different documents, one of them holding a Date, went through sendBatch and
\* the batch consumer.
C13_Witness ==
  /\ RoundTripDone
  /\ Len(pData[1].data) = 2
  /\ pData[1].data[1] # pData[1].data[2]
  /\ pData[1].data[2] = DatedDoc
  /\ pData[1].topic = ConsumerTopic
  /\ bPc = "returned"

\* C14: sendBatch(topic, []) completes without error, and if it invokes the
\* broker's batch send it does so with zero messages: nothing reaches the topic
\* and no batch is delivered.
C14_EmptySendBatch ==
  (pKind[1] = "sendBatch" /\ pData[1].data = <<>>) =>
    /\ pPc[1] # "rejected"
    /\ topicLog = <<>>
    /\ bDelivered = 0
    /\ (pPc[1] = "returned" /\ pFailed[1] = "none") =>
         (pLogged[1] = 0 /\ pOps[1] = <<"connect", "sendBatch", "disconnect">>)

\* sendBatch(topic, []) has returned with no failure of the broker.
C14_Witness ==
  /\ pKind[1] = "sendBatch"
  /\ pData[1].data = <<>>
  /\ pPc[1] = "returned"
  /\ pFailed[1] = "none"

\* C15: with several send / sendBatch calls in flight on the shared producer, a
\* publish is in flight only while the producer is connected: no disconnect of
\* another call takes effect between a call's connect and its publish.
C15_AsStated == \A s \in Senders : pPc[s] = "publishing" => prodConn

\* C16: when a send or sendBatch call has returned and no call is in flight, the
\* producer is disconnected, on the success path and after a serialization
\* failure or a rejected publish alike.
C16_AsStated ==
  (/\ \A s \in Senders : pPc[s] \in {"idle", "returned"}
   /\ \E s \in Senders : pPc[s] = "returned"
   /\ \A s \in Senders : pFailed[s] \in {"none", "serialize", "publish"}) =>
    ~prodConn

\* C17: every payload of a batch is deserialized before any handler invocation:
\* when a payload of the batch, at any index, fails to deserialize, no handler is
\* invoked and no heartbeat sent for the batch, the error is logged and the
\* callback returns normally.
C17_BadPayloadSkipsBatch ==
  (bDelivered >= 1 /\ ~AllParse) =>
    /\ bPc = "returned"
    /\ bTrace = <<<<"error">>>>
    /\ bInflight = {}

\* A batch whose first payload parses and whose last does not has been handled.
C17_Witness ==
  /\ bDelivered >= 1
  /\ Len(bMessages) >= 2
  /\ Parse(bMessages[1]) # ParseError
  /\ Parse(bMessages[Len(bMessages)]) = ParseError
  /\ bPc = "returned"

\* C18: the success marker of a batch is emitted iff the handler and the heartbeat
\* of every message resolved; a heartbeat failure after message i skips the
\* messages after i, logs an error, emits no success marker and the callback
\* returns; exactly one of success marker and error log is emitted per batch.
C18_SuccessOrError ==
  LET n == Len(bMessages)
  IN /\ bPc \in {"handler", "heartbeat"} =>
          Count(bTrace, IsSuccess) + Count(bTrace, IsError) = 0
     /\ (bPc = "returned" /\ bDelivered >= 1) =>
          /\ Count(bTrace, IsSuccess) + Count(bTrace, IsError) = 1
          /\ Count(bTrace, IsSuccess) = 1 <=>
               (Count(bTrace, IsDone) = n /\ Count(bTrace, IsHbDone) = n)
     /\ \A p \in Positions(bTrace, IsHbFail) :
          /\ bPc = "returned"
          /\ \A q \in Positions(bTrace, IsCall) : bTrace[q][2] <= bTrace[p][2]
          /\ Count(bTrace, IsError) = 1
          /\ Count(bTrace, IsSuccess) = 0
          /\ bInflight = {}

\* The heartbeat after the first message of a longer batch failed.
C18_Witness ==
  /\ Len(bMessages) >= 2
  /\ \E p \in Positions(bTrace, IsHbFail) : bTrace[p][2] = 1
  /\ bPc = "returned"

\* C19: after a subscribe or subscribeBatch call has finished, a handle it created
\* and connected is in the registry (before any shutdown has begun).
C19_AsStated ==
  \A c \in Calls :
    (sPc[c] \in {"resolved", "rejected"} /\ hConn[c] = "connected" /\ hookRuns = 0) =>
      c \in Registered

====
